---- MODULE Spec2Model ----
(***************************************************************************)
(* A model of the DiContainer of src/src/di.ts: a mapping from service     *)
(* names to lazily constructed singletons.  Two revisions of the class     *)
(* are modelled:                                                           *)
(*   - the variadic revision (di.ts 113-170): inject(...dependencies),     *)
(*     a Proxy with a get trap only, injectContainer by Object.assign;     *)
(*   - the overloaded revision (di.ts 242-313): inject(dependency) or      *)
(*     inject(name, create), a Proxy with get/getPrototypeOf/has/ownKeys   *)
(*     traps.                                                              *)
(* Spec, SpecMerge, SpecDeps, SpecShared and SpecReentrant are the         *)
(* variadic revision, SpecOverloaded the overloaded one.                   *)
(***************************************************************************)
EXTENDS Integers, Sequences, FiniteSets, TLC

VARIABLES
    props,        \* props[c]: the own enumerable properties of container c, in creation order
    svc,          \* svc[h]: the descriptor captured by the closure of handle h
    instance,     \* instance[h]: the closure variable `instance` of handle h
    constructed,  \* constructed[h]: how many times the constructor/factory of h was invoked
    touched,      \* the handles a member of which was read or called (history)
    last          \* the last call, its arguments and its outcome

vars == <<props, svc, instance, constructed, touched, last>>

----------------------------------------------------------------------------
(* Bounds *)

\* the longest argument list given to the variadic inject
MaxBatch == 2
\* the most invocations of one service's constructor/factory that are followed
MaxCalls == 2
\* the constructor calls that fit on the call stack one inside the other, less one
MaxDepth == 3

----------------------------------------------------------------------------
(* The objects of a run *)

\* the containers created with new DiContainer()
Containers == {"c1", "c2"}
\* the container the batch calls are made on
App == "c1"

\* own properties of DiContainer.prototype
DiContainerPrototype == {"constructor", "inject", "injectContainer"}
\* properties DiContainer.prototype inherits from Object.prototype
ObjectPrototype == {"toString", "hasOwnProperty"}

\* service classes: what getServiceName() returns and what the constructor does
\* (ThrowingService is a second class named "a"; its constructor throws)
ServiceA == [cls |-> "ServiceA", name |-> "a", form |-> "class", makes |-> "object"]
ServiceB == [cls |-> "ServiceB", name |-> "b", form |-> "class", makes |-> "object"]
ThrowingService == [cls |-> "ThrowingService", name |-> "a", form |-> "class", makes |-> "throws"]
InjectService == [cls |-> "InjectService", name |-> "inject", form |-> "class", makes |-> "object"]
ToStringService == [cls |-> "ToStringService", name |-> "toString", form |-> "class", makes |-> "object"]

Classes == {ServiceA, ServiceB, ThrowingService, InjectService, ToStringService}

\* name + factory pairs of inject(name, create): what create returns
Factories ==
    { [cls |-> "factory", name |-> n, form |-> "factory", makes |-> m] :
        n \in {"a", "b"}, m \in {"object", "zero", "null"} }

\* classes whose methods use other services through the container they hold
ServiceC == [cls |-> "ServiceC", name |-> "c", form |-> "class", makes |-> "object"]
CircularA == [cls |-> "CircularA", name |-> "a", form |-> "class", makes |-> "object"]
CircularB == [cls |-> "CircularB", name |-> "b", form |-> "class", makes |-> "object"]

DependentClasses == {ServiceA, ServiceB, ServiceC, CircularA, CircularB}

Names == {d.name : d \in Classes \cup Factories \cup DependentClasses}
Handles == Containers \X Names

None == [kind |-> "none"]
NoError == [kind |-> "none", name |-> ""]

Proxy(h) == [kind |-> "proxy", h |-> h]
Instance(h, n) == [kind |-> "instance", h |-> h, n |-> n]
Falsy(h, n) == [kind |-> "falsy", h |-> h, n |-> n]
\* the container object c itself, as a value
Self(c) == [kind |-> "container", c |-> c]

BatchesOf(S) == UNION { [1..n -> S] : n \in 0..MaxBatch }

\* the argument lists of the variadic inject
ArgumentLists == BatchesOf(Classes)

----------------------------------------------------------------------------
(* Property lookup on a container *)

OwnIndex(P, c, key) ==
    IF \E i \in 1..Len(P[c]) : P[c][i].key = key
    THEN CHOOSE i \in 1..Len(P[c]) : P[c][i].key = key
    ELSE 0

has(P, c, key) == OwnIndex(P, c, key) # 0

Keys(P, c) == {P[c][i].key : i \in 1..Len(P[c])}

\* key in DiContainer.prototype: the prototype chain is searched
InPrototype(key) == key \in DiContainerPrototype \cup ObjectPrototype

\* (t as any)[name]: the own property, else what the prototype chain gives
Read(P, c, key) ==
    IF has(P, c, key) THEN P[c][OwnIndex(P, c, key)].val
    ELSE IF InPrototype(key) THEN [kind |-> "function"]
    ELSE None

Truthy(v) == v.kind \notin {"none", "falsy"}

getServiceName(d) == d.name

----------------------------------------------------------------------------
(* The heap the methods work on: the variables an operation may change *)

Heap == [props |-> props, svc |-> svc, instance |-> instance, constructed |-> constructed]

\* this[key] = val: an own property is overwritten in place, a new one is appended
SetProp(P, c, key, val) ==
    IF has(P, c, key)
    THEN [P EXCEPT ![c][OwnIndex(P, c, key)].val = val]
    ELSE [P EXCEPT ![c] = Append(@, [key |-> key, val |-> val])]

\* new (dependency as any)(t), or create(t): what the n-th invocation yields
Construct(d, h, n) ==
    IF d.makes = "object" THEN Instance(h, n) ELSE Falsy(h, n)

----------------------------------------------------------------------------
(* The variadic revision: di.ts 113-170 *)

\* the traps of the handler given to new Proxy(Object.create(prototype), {...})
ProxyTraps == {"get"}

\* the service constructed when it is registered
installEager(s, t, dependency) ==
    LET name == getServiceName(dependency)
        made == Instance(<<t, name>>, 1) IN
    [s EXCEPT !.props = SetProp(s.props, t, name, made),
              !.svc[<<t, name>>] = dependency,
              !.instance[<<t, name>>] = made,
              !.constructed[<<t, name>>] = 1]
\* the proxy stored on the container and on every container that merged it
installShared(s, t, dependency) ==
    LET name == getServiceName(dependency)
        holders == {c \in DOMAIN s.props :
                       c = t \/ \E i \in 1..Len(s.props[c]) : s.props[c][i].val.h[1] = t}
    IN [s EXCEPT !.props = [c \in DOMAIN s.props |->
                               IF c \in holders /\ ~has(s.props, c, name)
                               THEN Append(s.props[c], [key |-> name, val |-> Proxy(<<t, name>>)])
                               ELSE s.props[c]],
                 !.svc[<<t, name>>] = dependency]
\* one round of the reduce callback that passed the check: the proxy is stored
install(s, t, dependency) ==
    LET name == getServiceName(dependency) IN
    [s EXCEPT !.props = SetProp(s.props, t, name, Proxy(<<t, name>>)),
              !.svc[<<t, name>>] = dependency]

\* the message of the Error thrown for a name whose property is truthy
InjectError(name) ==
    [kind |-> IF InPrototype(name) THEN "Reserved" ELSE "Duplicated", name |-> name]

\* a check of the prototype's names alone
IsTakenReservedOnly(P, t, name) == InPrototype(name)
\* a check of the own properties alone
IsTakenOwnOnly(P, t, name) == has(P, t, name)
\* the check of the reduce callback: if ((t as any)[name]) throw
IsTaken(P, t, name) == Truthy(Read(P, t, name))

\* dependencies.reduce((t, dependency) => ..., this), from the i-th dependency on
RECURSIVE reduce(_, _, _, _)
reduce(s, t, dependencies, i) ==
    IF i > Len(dependencies)
    THEN [heap |-> s, err |-> NoError, at |-> 0, ret |-> Self(t)]
    ELSE LET name == getServiceName(dependencies[i]) IN
         IF IsTaken(s.props, t, name)
         THEN [heap |-> s, err |-> InjectError(name), at |-> i, ret |-> None]
         ELSE reduce(install(s, t, dependencies[i]), t, dependencies, i + 1)

\* the constructor called at every read: instance = (t as any)[name] = new ...
getInstanceAlways(s, h) ==
    LET n == s.constructed[h] + 1
        called == [s EXCEPT !.constructed[h] = n]
        made == Construct(s.svc[h], h, n)
    IN IF s.svc[h].makes = "throws"
       THEN [heap |-> called, threw |-> TRUE, value |-> None]
       ELSE [heap |-> [called EXCEPT !.instance[h] = made,
                                     !.props = SetProp(called.props, h[1], h[2], made)],
             threw |-> FALSE, value |-> made]
\* the instance stored in the container alone: (t as any)[name] = new ...
getInstanceNotKept(s, h) ==
    LET n == s.constructed[h] + 1
        called == [s EXCEPT !.constructed[h] = n]
        made == Construct(s.svc[h], h, n)
    IN IF s.svc[h].makes = "throws"
       THEN [heap |-> called, threw |-> TRUE, value |-> None]
       ELSE [heap |-> [called EXCEPT !.props = SetProp(called.props, h[1], h[2], made)],
             threw |-> FALSE, value |-> made]
\* the first construction in a container constructing every service of it
getInstanceCascade(s, h) ==
    IF Truthy(s.instance[h])
    THEN [heap |-> s, threw |-> FALSE, value |-> s.instance[h]]
    ELSE LET all == {g \in DOMAIN s.svc : g[1] = h[1] /\ s.svc[g] # None /\ s.instance[g] = None}
             made == Construct(s.svc[h], h, s.constructed[h] + 1)
         IN [heap |-> [s EXCEPT !.constructed = [g \in DOMAIN s.constructed |->
                                       IF g \in all THEN s.constructed[g] + 1 ELSE s.constructed[g]],
                                !.instance = [g \in DOMAIN s.instance |->
                                       IF g \in all THEN Construct(s.svc[g], g, s.constructed[g] + 1)
                                       ELSE s.instance[g]],
                                !.props = SetProp(s.props, h[1], h[2], made)],
             threw |-> FALSE, value |-> made]
\* the constructor's error caught inside the trap
getInstanceSwallows(s, h) ==
    IF Truthy(s.instance[h])
    THEN [heap |-> s, threw |-> FALSE, value |-> s.instance[h]]
    ELSE LET n == s.constructed[h] + 1
             called == [s EXCEPT !.constructed[h] = n]
             made == Construct(s.svc[h], h, n)
         IN IF s.svc[h].makes = "throws"
            THEN [heap |-> called, threw |-> FALSE, value |-> None]
            ELSE [heap |-> [called EXCEPT !.instance[h] = made,
                                          !.props = SetProp(called.props, h[1], h[2], made)],
                  threw |-> FALSE, value |-> made]
\* a constructor that threw remembered as if it had returned
getInstanceKeepsFailure(s, h) ==
    IF s.constructed[h] > 0
    THEN [heap |-> s, threw |-> s.svc[h].makes = "throws", value |-> s.instance[h]]
    ELSE LET n == s.constructed[h] + 1
             called == [s EXCEPT !.constructed[h] = n]
             made == Construct(s.svc[h], h, n)
         IN IF s.svc[h].makes = "throws"
            THEN [heap |-> called, threw |-> TRUE, value |-> None]
            ELSE [heap |-> [called EXCEPT !.instance[h] = made,
                                          !.props = SetProp(called.props, h[1], h[2], made)],
                  threw |-> FALSE, value |-> made]
\* the instance neither kept nor stored: new (dependency as any)(t) at every read
getInstanceForgetful(s, h) ==
    LET n == s.constructed[h] + 1
        called == [s EXCEPT !.constructed[h] = n]
    IN IF s.svc[h].makes = "throws"
       THEN [heap |-> called, threw |-> TRUE, value |-> None]
       ELSE [heap |-> called, threw |-> FALSE, value |-> Construct(s.svc[h], h, n)]
\* instance ||= (t as any)[name] = new (dependency as any)(t)
getInstance(s, h) ==
    IF Truthy(s.instance[h])
    THEN [heap |-> s, threw |-> FALSE, value |-> s.instance[h]]
    ELSE LET n == s.constructed[h] + 1
             called == [s EXCEPT !.constructed[h] = n]
             made == Construct(s.svc[h], h, n)
         IN IF s.svc[h].makes = "throws"
            THEN [heap |-> called, threw |-> TRUE, value |-> None]
            ELSE [heap |-> [called EXCEPT !.instance[h] = made,
                                          !.props = SetProp(called.props, h[1], h[2], made)],
                  threw |-> FALSE, value |-> made]

\* no check before the copy
FirstDuplicateUnchecked(P, t, other) == 0
\* for (let key in other) if ((this as any)[key]) throw: the first such key, or 0
FirstDuplicate(P, t, other) ==
    LET dup == {i \in 1..Len(P[other]) : Truthy(Read(P, t, P[other][i].key))} IN
    IF dup = {} THEN 0 ELSE CHOOSE i \in dup : \A j \in dup : i <= j

\* the loop of Object.assign over the own enumerable properties of the source
RECURSIVE assignFrom(_, _, _, _)
assignFrom(P, target, source, i) ==
    IF i > Len(source) THEN P
    ELSE assignFrom(SetProp(P, target, source[i].key, source[i].val), target, source, i + 1)

assignSwapped(P, target, other) == assignFrom(P, other, P[target], 1)
\* Object.assign(this, other)
assign(P, target, other) == assignFrom(P, target, P[other], 1)

\* the check and the copy done key by key in one loop
mergeInterleaved(s, t, other) ==
    LET i == FirstDuplicate(s.props, t, other) IN
    IF i # 0
    THEN [heap |-> [s EXCEPT !.props = assignFrom(s.props, t, SubSeq(s.props[other], 1, i - 1), 1)],
          err |-> [kind |-> "ContainersDuplicated", name |-> s.props[other][i].key], ret |-> None]
    ELSE [heap |-> [s EXCEPT !.props = assign(s.props, t, other)], err |-> NoError, ret |-> Self(t)]
\* the source container returned instead of the target
mergeReturnsOther(s, t, other) ==
    LET i == FirstDuplicate(s.props, t, other) IN
    IF i # 0
    THEN [heap |-> s, err |-> [kind |-> "ContainersDuplicated", name |-> s.props[other][i].key],
          ret |-> None]
    ELSE [heap |-> [s EXCEPT !.props = assign(s.props, t, other)], err |-> NoError,
          ret |-> Self(other)]
\* the body of injectContainer(other) called on t
mergeInto(s, t, other) ==
    LET i == FirstDuplicate(s.props, t, other) IN
    IF i # 0
    THEN [heap |-> s, err |-> [kind |-> "ContainersDuplicated", name |-> s.props[other][i].key],
          ret |-> None]
    ELSE [heap |-> [s EXCEPT !.props = assign(s.props, t, other)], err |-> NoError,
          ret |-> Self(t)]

----------------------------------------------------------------------------
(* Calls and their outcomes *)

\* what a call did: the method, the container it was called on, its arguments,
\* the Error it threw and the position of the argument that raised it, the value
\* a member operation was applied to, and the object that answered it or the
\* value the call returned
Outcome(op, c, args, err, at, ref, target) ==
    [op |-> op, c |-> c, args |-> args, err |-> err, at |-> at, ref |-> ref, target |-> target,
     again |-> FALSE, log |-> <<>>]

ConstructionError(h) == [kind |-> "Construction", name |-> h[2]]
\* undefined.member, or a call of a value that is no function
TypeError(key) == [kind |-> "TypeError", name |-> key]

\* the object the Proxy wraps: it answers what the handler has no trap for
ProxyTarget == [kind |-> "target"]

SetHeap(s) ==
    /\ props' = s.props
    /\ svc' = s.svc
    /\ instance' = s.instance
    /\ constructed' = s.constructed

Registered == {h \in Handles : svc[h] # None}

\* the values a call site can hold: container.key read afresh, or a proxy it
\* read earlier and kept (const s = container.lazy)
Refs ==
    {v \in {Proxy(h) : h \in Registered} \cup {Read(props, c, key) : c \in Containers, key \in Names} :
        v.kind \in {"proxy", "instance"}}

Init ==
    /\ props = [c \in Containers |-> <<>>]
    /\ svc = [h \in Handles |-> None]
    /\ instance = [h \in Handles |-> None]
    /\ constructed = [h \in Handles |-> 0]
    /\ touched = {}
    /\ last = Outcome("new", "", <<>>, NoError, 0, None, None)

\* the call repeats the call before it, which failed after its first round
Retried(t, dependencies) ==
    /\ last.op = "inject"
    /\ last.c = t
    /\ last.args = dependencies
    /\ last.at > 1

\* a call that installs nothing when it fails
injectAtomic(t, dependencies) ==
    LET r == reduce(Heap, t, dependencies, 1) IN
    /\ SetHeap(IF r.err = NoError THEN r.heap ELSE Heap)
    /\ last' = [Outcome("inject", t, dependencies, r.err, r.at, None, r.ret)
                    EXCEPT !.again = Retried(t, dependencies)]
    /\ UNCHANGED touched
\* container.inject(...dependencies)
inject(t, dependencies) ==
    LET r == reduce(Heap, t, dependencies, 1) IN
    /\ SetHeap(r.heap)
    /\ last' = [Outcome("inject", t, dependencies, r.err, r.at, None, r.ret)
                    EXCEPT !.again = Retried(t, dependencies)]
    /\ UNCHANGED touched

\* container.injectContainer(other)
injectContainer(t, other) ==
    LET r == mergeInto(Heap, t, other) IN
    /\ SetHeap(r.heap)
    /\ last' = Outcome("injectContainer", t, <<other>>, r.err, 0, None, r.ret)
    /\ UNCHANGED touched

\* const s = container.key: the entry is read, no member of it is touched
retrieve(c, key) ==
    /\ has(props, c, key)
    /\ last' = Outcome("retrieve", c, <<key>>, NoError, 0, Read(props, c, key), None)
    /\ UNCHANGED <<props, svc, instance, constructed, touched>>

\* an operation of kind trap on the value v: through the proxy's trap if it has
\* one, on the proxy's target if it has none, on the instance if v is one
Interact(v, trap) ==
    LET h == v.h IN
    IF v.kind = "proxy" /\ trap \in ProxyTraps
    THEN LET r == getInstance(Heap, h) IN
         /\ r.heap.constructed[h] <= MaxCalls
         /\ SetHeap(r.heap)
         /\ last' = Outcome(trap, "", <<>>, IF r.threw THEN ConstructionError(h) ELSE NoError,
                            0, v, r.value)
    ELSE /\ last' = Outcome(trap, "", <<>>, NoError, 0, v,
                            IF v.kind = "instance" THEN v ELSE ProxyTarget)
         /\ UNCHANGED <<props, svc, instance, constructed>>

\* v.member or v.method(): a property read
get(v) ==
    /\ Interact(v, "get")
    /\ touched' = touched \cup {v.h}

\* v instanceof Class: the prototype of v is asked for
getPrototypeOf(v) ==
    /\ Interact(v, "getPrototypeOf")
    /\ UNCHANGED touched

\* "member" in v
hasMember(v) ==
    /\ Interact(v, "has")
    /\ UNCHANGED touched

\* a method found on the instance: a function with no this of its own
Method == [kind |-> "function", this |-> None]

\* value.bind(instance)
bind(value, thisArg) == [value EXCEPT !.this = thisArg]

\* the value handed out with its receiver left open
trapValueUnbound(value, inst) == value
\* what the get trap returns: (typeof value)[0] == "f" ? value.bind(instance) : value
trapValue(value, inst) ==
    IF value.kind = "function" THEN bind(value, inst) ELSE value

\* const m = v.method; m(): the method read off v is called on its own; its
\* this is the instance it was bound to, or undefined if it was bound to none
callDetached(v) ==
    LET h == v.h
        r == IF v.kind = "proxy" THEN getInstance(Heap, h)
             ELSE [heap |-> Heap, threw |-> FALSE, value |-> v]
        m == IF v.kind = "proxy" THEN trapValue(Method, r.value) ELSE Method
    IN /\ r.heap.constructed[h] <= MaxCalls
       /\ SetHeap(r.heap)
       /\ last' = Outcome("callDetached", "", <<>>,
                          IF r.threw THEN ConstructionError(h)
                          ELSE IF m.this = None THEN TypeError(h[2])
                          ELSE NoError,
                          0, v, IF r.threw THEN None ELSE m.this)
       /\ touched' = touched \cup {h}

\* a property whose read runs the service's constructor
readEntryConstructing(s, c, key) ==
    LET v == Read(s.props, c, key) IN
    IF v.kind = "proxy" /\ s.svc[v.h].makes = "object"
    THEN [heap |-> getInstance(s, v.h).heap, value |-> v]
    ELSE [heap |-> s, value |-> v]
\* container[key] for an own property: a data property, whose read runs no code
readEntry(s, c, key) == [heap |-> s, value |-> Read(s.props, c, key)]

\* Object.values(container): the own enumerable properties are read in order
RECURSIVE valuesFrom(_, _, _, _)
valuesFrom(s, c, i, acc) ==
    IF i > Len(s.props[c])
    THEN [heap |-> s, value |-> acc]
    ELSE LET r == readEntry(s, c, s.props[c][i].key) IN
         valuesFrom(r.heap, c, i + 1, Append(acc, r.value))

\* key in container: own properties, then the prototype chain
inContainer(c, key) ==
    /\ last' = Outcome("in", c, <<key>>, NoError, 0, None,
                       [kind |-> "boolean", is |-> has(props, c, key) \/ InPrototype(key)])
    /\ UNCHANGED <<props, svc, instance, constructed, touched>>

\* Object.keys(container)
keysOf(c) ==
    /\ last' = Outcome("keys", c, <<>>, NoError, 0, None,
                       [kind |-> "array", items |-> [i \in 1..Len(props[c]) |-> props[c][i].key]])
    /\ UNCHANGED <<props, svc, instance, constructed, touched>>

\* Object.values(container), each value then compared with container[key]
valuesOf(c) ==
    LET r == valuesFrom(Heap, c, 1, <<>>) IN
    /\ \A h \in Handles : r.heap.constructed[h] <= MaxCalls
    /\ SetHeap(r.heap)
    /\ last' = Outcome("values", c, <<>>, NoError, 0, None,
                       [kind |-> "array", items |-> r.value])
    /\ UNCHANGED touched

\* one container, registered in batches and used
Next ==
    \/ \E dependencies \in ArgumentLists : inject(App, dependencies)
    \/ \E key \in Names : retrieve(App, key)
    \/ \E v \in Refs : get(v)
    \/ \E v \in Refs : getPrototypeOf(v)
    \/ \E v \in Refs : hasMember(v)
    \/ \E v \in Refs : callDetached(v)
    \/ \E key \in Names : inContainer(App, key)
    \/ keysOf(App)
    \/ valuesOf(App)

Spec == Init /\ [][Next]_vars

\* two containers, registered one service at a time, merged and used
NextMerge ==
    \/ \E t \in Containers, dependency \in Classes : inject(t, <<dependency>>)
    \/ \E t \in Containers, other \in Containers : injectContainer(t, other)
    \/ \E c \in Containers, key \in Names : retrieve(c, key)
    \/ \E v \in Refs : get(v)

SpecMerge == Init /\ [][NextMerge]_vars

----------------------------------------------------------------------------
(* The overloaded revision: di.ts 242-313 *)

\* const ReservedFields = new Set(["inject", "injectContainer"])
ReservedFields == {"inject", "injectContainer"}

\* the traps of the handler given to new Proxy({}, {...})
LazyTraps == {"get", "getPrototypeOf", "has", "ownKeys"}

\* the descriptors given to inject(dependency) and inject(name, create)
Descriptors ==
    {ServiceA, ThrowingService, InjectService, ToStringService}
        \cup {d \in Factories : d.name = "b"}

\* the body of inject: the two checks, then this[name] = lazy
register(s, t, d) ==
    LET name == getServiceName(d) IN
    IF name \in ReservedFields
    THEN [heap |-> s, err |-> [kind |-> "ReservedField", name |-> name]]
    ELSE IF has(s.props, t, name)
    THEN [heap |-> s, err |-> [kind |-> "Duplicate", name |-> name]]
    ELSE [heap |-> [s EXCEPT !.props = SetProp(s.props, t, name, Proxy(<<t, name>>)),
                             !.svc[<<t, name>>] = d],
          err |-> NoError]

\* const getInstance = () => { if (!instance) instance = ...; return instance }
getInstanceIfNot(s, h) ==
    IF Truthy(s.instance[h])
    THEN [heap |-> s, threw |-> FALSE, value |-> s.instance[h]]
    ELSE LET n == s.constructed[h] + 1
             called == [s EXCEPT !.constructed[h] = n]
         IN IF s.svc[h].makes = "throws"
            THEN [heap |-> called, threw |-> TRUE, value |-> None]
            ELSE [heap |-> [called EXCEPT !.instance[h] = Construct(s.svc[h], h, n)],
                  threw |-> FALSE, value |-> Construct(s.svc[h], h, n)]

\* container.inject(dependency) or container.inject(name, create)
injectOverloaded(t, d) ==
    LET r == register(Heap, t, d) IN
    /\ SetHeap(r.heap)
    /\ last' = Outcome("inject", t, <<d>>, r.err, IF r.err = NoError THEN 0 ELSE 1, None, None)
    /\ UNCHANGED touched

\* an operation of kind trap on the proxy v: every trap asks getInstance() and
\* works on what it returns; null has no members, no prototype and no keys
InteractLazy(v, trap) ==
    LET h == v.h
        r == getInstanceIfNot(Heap, h)
    IN /\ v.kind = "proxy"
       /\ trap \in LazyTraps
       /\ r.heap.constructed[h] <= MaxCalls
       /\ SetHeap(r.heap)
       /\ last' = Outcome(trap, "", <<>>,
                          IF r.threw THEN ConstructionError(h)
                          ELSE IF svc[h].makes = "null" THEN [kind |-> "TypeError", name |-> h[2]]
                          ELSE NoError,
                          0, v, r.value)

\* v.member or v.method()
getLazy(v) ==
    /\ InteractLazy(v, "get")
    /\ touched' = touched \cup {v.h}

\* v instanceof Class
getPrototypeOfLazy(v) ==
    /\ InteractLazy(v, "getPrototypeOf")
    /\ UNCHANGED touched

\* "member" in v
hasLazy(v) ==
    /\ InteractLazy(v, "has")
    /\ UNCHANGED touched

\* Object.getOwnPropertyNames(v)
ownKeysLazy(v) ==
    /\ InteractLazy(v, "ownKeys")
    /\ UNCHANGED touched

\* one container of the overloaded revision, registered and used
NextOverloaded ==
    \/ \E d \in Descriptors : injectOverloaded(App, d)
    \/ \E key \in Names : retrieve(App, key)
    \/ \E v \in Refs : getLazy(v)
    \/ \E v \in Refs : getPrototypeOfLazy(v)
    \/ \E v \in Refs : hasLazy(v)
    \/ \E v \in Refs : ownKeysLazy(v)

SpecOverloaded == Init /\ [][NextOverloaded]_vars

----------------------------------------------------------------------------
(* Services that use one another: the variadic revision with method calls *)

\* the argument lists of classes that use one another: any number of them, in
\* any order, no two of the same name
DependencyLists ==
    {l \in UNION { [1..n -> DependentClasses] : n \in 0..Cardinality({d.name : d \in DependentClasses}) } :
        \A i, j \in 1..Len(l) : l[i].name = l[j].name => i = j}

\* the body of method m of class d: the text it produces itself and, in order,
\* the calls this.deps.<key>.<method>() whose results it appends
Body(d, m) ==
    CASE d.cls = "ServiceA" /\ m = "getValue" ->
            [out |-> <<"A">>, calls |-> <<>>]
      [] d.cls = "ServiceB" /\ m = "getValue" ->
            [out |-> <<"B">>, calls |-> <<[key |-> "a", method |-> "getValue"]>>]
      [] d.cls = "ServiceC" /\ m = "getValue" ->
            [out |-> <<"C">>, calls |-> <<[key |-> "a", method |-> "getValue"],
                                          [key |-> "b", method |-> "getValue"]>>]
      [] d.cls = "CircularA" /\ m = "doA" ->
            [out |-> <<"a">>, calls |-> <<[key |-> "b", method |-> "doB"]>>]
      [] d.cls = "CircularA" /\ m = "ping" ->
            [out |-> <<"a">>, calls |-> <<>>]
      [] d.cls = "CircularB" /\ m = "doB" ->
            [out |-> <<"b">>, calls |-> <<>>]
      [] d.cls = "CircularB" /\ m = "askA" ->
            [out |-> <<"b">>, calls |-> <<[key |-> "a", method |-> "ping"]>>]
      [] OTHER -> [out |-> <<>>, calls |-> <<>>]

Methods == {"getValue", "doA", "ping", "doB", "askA"}

\* typeof instance[m] is "function"
HasMethod(d, m) == Body(d, m).out # <<>>

\* deps.<key>.<m>(): the entry of the container deps is read; a proxy goes
\* through its get trap; the method found runs with this = the instance, whose
\* deps is the container the instance was constructed with
RECURSIVE invoke(_, _, _, _)
RECURSIVE run(_, _, _, _, _, _)
\* the method run with the container it was reached through
invokeVia(s, deps, key, m) ==
    LET entry == Read(s.props, deps, key) IN
    IF entry.kind \notin {"proxy", "instance"}
    THEN [heap |-> s, err |-> TypeError(key), value |-> <<>>, read |-> {}]
    ELSE LET h == entry.h
             r == IF entry.kind = "proxy" THEN getInstance(s, h)
                  ELSE [heap |-> s, threw |-> FALSE, value |-> entry]
         IN IF r.threw
            THEN [heap |-> r.heap, err |-> ConstructionError(h), value |-> <<>>, read |-> {h}]
            ELSE IF ~HasMethod(s.svc[h], m)
            THEN [heap |-> r.heap, err |-> TypeError(m), value |-> <<>>, read |-> {h}]
            ELSE run(r.heap, deps, Body(s.svc[h], m).calls, 1, Body(s.svc[h], m).out, {h})
invoke(s, deps, key, m) ==
    LET entry == Read(s.props, deps, key) IN
    IF entry.kind \notin {"proxy", "instance"}
    THEN [heap |-> s, err |-> TypeError(key), value |-> <<>>, read |-> {}]
    ELSE LET h == entry.h
             r == IF entry.kind = "proxy" THEN getInstance(s, h)
                  ELSE [heap |-> s, threw |-> FALSE, value |-> entry]
         IN IF r.threw
            THEN [heap |-> r.heap, err |-> ConstructionError(h), value |-> <<>>, read |-> {h}]
            ELSE IF ~HasMethod(s.svc[h], m)
            THEN [heap |-> r.heap, err |-> TypeError(m), value |-> <<>>, read |-> {h}]
            ELSE run(r.heap, h[1], Body(s.svc[h], m).calls, 1, Body(s.svc[h], m).out, {h})
\* the calls of a method body from the i-th on, acc being the text so far
run(s, deps, calls, i, acc, read) ==
    IF i > Len(calls)
    THEN [heap |-> s, err |-> NoError, value |-> acc, read |-> read]
    ELSE LET r == invoke(s, deps, calls[i].key, calls[i].method) IN
         IF r.err # NoError
         THEN [heap |-> r.heap, err |-> r.err, value |-> <<>>, read |-> read \cup r.read]
         ELSE run(r.heap, deps, calls, i + 1, acc \o r.value, read \cup r.read)

\* container.key.m()
callMethod(c, key, m) ==
    LET r == invoke(Heap, c, key, m) IN
    /\ has(props, c, key)
    /\ \A h \in Handles : r.heap.constructed[h] <= MaxCalls
    /\ SetHeap(r.heap)
    /\ last' = Outcome("call", c, <<key, m>>, r.err, 0, Read(props, c, key), r.value)
    /\ touched' = touched \cup r.read

\* one container, classes that use one another registered in batches
NextDeps ==
    \/ \E dependencies \in DependencyLists : inject(App, dependencies)
    \/ \E key \in Names, m \in Methods : callMethod(App, key, m)

SpecDeps == Init /\ [][NextDeps]_vars

\* two containers, a service and one that uses it registered one at a time,
\* the containers merged and the services called through either
NextShared ==
    \/ \E t \in Containers, dependency \in {ServiceA, ServiceB} : inject(t, <<dependency>>)
    \/ \E t \in Containers, other \in Containers : injectContainer(t, other)
    \/ \E c \in Containers, key \in Names : callMethod(c, key, "getValue")

SpecShared == Init /\ [][NextShared]_vars

----------------------------------------------------------------------------
(* Constructors that use the container they are given *)

\* constructor(deps) { deps.b.x }, constructor(deps) { deps.a.x }
EagerA == [cls |-> "EagerA", name |-> "a", form |-> "class", makes |-> "object"]
EagerB == [cls |-> "EagerB", name |-> "b", form |-> "class", makes |-> "object"]
\* constructor(deps) { if (OnceA.n++ == 0) deps.b.x }
OnceA == [cls |-> "OnceA", name |-> "a", form |-> "class", makes |-> "object"]
\* constructor(deps) { if (SelfOnce.n++ == 0) deps.c.x }
SelfOnce == [cls |-> "SelfOnce", name |-> "c", form |-> "class", makes |-> "object"]

ReentrantClasses == {EagerA, EagerB, OnceA, SelfOnce, ServiceB}

\* the entries of its container the n-th invocation of the constructor of d
\* reads a member of, in order
Touches(d, n) ==
    CASE d.cls = "EagerA" -> <<"b">>
      [] d.cls = "EagerB" -> <<"a">>
      [] d.cls = "OnceA" /\ n = 1 -> <<"b">>
      [] d.cls = "SelfOnce" /\ n = 1 -> <<"c">>
      [] OTHER -> <<>>

\* RangeError: Maximum call stack size exceeded
RangeError == [kind |-> "RangeError", name |-> ""]

\* the get trap with the constructor's own reads followed: `instance` is
\* tested before the constructor is called and assigned after it returned;
\* log lists the assignments to `instance` in the order they are made
RECURSIVE getInstanceNested(_, _, _)
RECURSIVE runConstructor(_, _, _, _, _)
\* the instance made and cached before the constructor's body runs
getInstanceEarly(s, h, depth) ==
    IF Truthy(s.instance[h])
    THEN [heap |-> s, err |-> NoError, value |-> s.instance[h], log |-> <<>>, read |-> {}]
    ELSE IF depth > MaxDepth
    THEN [heap |-> s, err |-> RangeError, value |-> None, log |-> <<>>, read |-> {}]
    ELSE LET n == s.constructed[h] + 1
             made == Construct(s.svc[h], h, n)
             called == [s EXCEPT !.constructed[h] = n,
                                 !.instance[h] = made,
                                 !.props = SetProp(s.props, h[1], h[2], made)]
             body == runConstructor(called, h[1], Touches(s.svc[h], n), 1, depth + 1)
         IN [heap |-> body.heap, err |-> body.err,
             value |-> IF body.err = NoError THEN made ELSE None,
             log |-> <<[h |-> h, value |-> made]>> \o body.log, read |-> body.read]
getInstanceNested(s, h, depth) ==
    IF Truthy(s.instance[h])
    THEN [heap |-> s, err |-> NoError, value |-> s.instance[h], log |-> <<>>, read |-> {}]
    ELSE IF depth > MaxDepth
    THEN [heap |-> s, err |-> RangeError, value |-> None, log |-> <<>>, read |-> {}]
    ELSE LET n == s.constructed[h] + 1
             called == [s EXCEPT !.constructed[h] = n]
             body == runConstructor(called, h[1], Touches(s.svc[h], n), 1, depth + 1)
             made == Construct(s.svc[h], h, n)
         IN IF body.err # NoError
            THEN [heap |-> body.heap, err |-> body.err, value |-> None,
                  log |-> body.log, read |-> body.read]
            ELSE [heap |-> [body.heap EXCEPT !.instance[h] = made,
                                             !.props = SetProp(body.heap.props, h[1], h[2], made)],
                  err |-> NoError, value |-> made,
                  log |-> Append(body.log, [h |-> h, value |-> made]), read |-> body.read]
\* the body of a constructor given container t, from its i-th read on:
\* t.key.x goes through the get trap if t.key is a proxy, reads the instance
\* if it is one, and is undefined.x if t has no such entry
runConstructor(s, t, keys, i, depth) ==
    IF i > Len(keys)
    THEN [heap |-> s, err |-> NoError, log |-> <<>>, read |-> {}]
    ELSE LET entry == Read(s.props, t, keys[i]) IN
         IF entry.kind \notin {"proxy", "instance"}
         THEN [heap |-> s, err |-> TypeError(keys[i]), log |-> <<>>, read |-> {}]
         ELSE LET r == IF entry.kind = "proxy" THEN getInstanceNested(s, entry.h, depth)
                       ELSE [heap |-> s, err |-> NoError, log |-> <<>>, read |-> {}]
              IN IF r.err # NoError
                 THEN [heap |-> r.heap, err |-> r.err, log |-> r.log,
                       read |-> r.read \cup {entry.h}]
                 ELSE LET rest == runConstructor(r.heap, t, keys, i + 1, depth) IN
                      [heap |-> rest.heap, err |-> rest.err, log |-> r.log \o rest.log,
                       read |-> r.read \cup rest.read \cup {entry.h}]

\* v.x for a value v read off a container
getReentrant(v) ==
    LET h == v.h
        r == IF v.kind = "proxy" THEN getInstanceNested(Heap, h, 0)
             ELSE [heap |-> Heap, err |-> NoError, value |-> v, log |-> <<>>, read |-> {}]
    IN /\ \A g \in Handles : r.heap.constructed[g] <= MaxDepth
       /\ SetHeap(r.heap)
       /\ last' = [Outcome("get", "", <<>>, r.err, 0, v, r.value) EXCEPT !.log = r.log]
       /\ touched' = touched \cup {h} \cup r.read

\* one container, services whose constructors read other services or their own
NextReentrant ==
    \/ \E dependency \in ReentrantClasses : inject(App, <<dependency>>)
    \/ \E v \in Refs : getReentrant(v)

SpecReentrant == Init /\ [][NextReentrant]_vars

----------------------------------------------------------------------------
(* Claims *)

\* the names of the container's own operations
ReservedNames == {"inject", "injectContainer"}

NameAt(deps) == [i \in 1..Len(deps) |-> getServiceName(deps[i])]
NameSet(deps) == {getServiceName(deps[i]) : i \in 1..Len(deps)}

\* the call of inject recorded in `last` got as far as its i-th argument
Reached(call, i) == call.at = 0 \/ call.at >= i

\* the proxies the arguments 1..n of a call on t install, in order
Installed(t, deps, n) == [i \in 1..n |-> [key |-> getServiceName(deps[i]),
                                         val |-> Proxy(<<t, getServiceName(deps[i])>>)]]

\* C1: neither inject nor a retrieval of the handle invokes the constructor:
\* the construction counter of a service is 0, and nothing is cached, as long
\* as no member of its handle has been touched.
C1_NotConstructedUntilTouched ==
    \A h \in Handles : h \notin touched => constructed[h] = 0 /\ instance[h] = None

\* C1 witness: a registered handle was just retrieved from the container and
\* its service is still unconstructed.
C1_Witness ==
    /\ last.op = "retrieve"
    /\ last.ref.kind = "proxy"
    /\ last.ref.h \in Registered
    /\ last.ref.h \notin touched
    /\ constructed[last.ref.h] = 0

C3_QueryConstructs ==
    (/\ last.op \in {"getPrototypeOf", "has"}
     /\ last.ref.kind = "proxy"
     /\ svc[last.ref.h].makes = "object")
        => constructed[last.ref.h] = 1

\* C5: an inject call that reaches a descriptor whose name is already in the
\* container (from before the call or from earlier in the call) throws the
\* duplicate-name error naming it, and the entry of that name is the one that
\* was there: same value, same service, same cached instance.
C5_DuplicateRejected ==
    [][last'.op = "inject" =>
        LET t == last'.c
            deps == last'.args
        IN \A i \in 1..Len(deps) :
            LET n == getServiceName(deps[i])
                before == {j \in 1..(i - 1) : getServiceName(deps[j]) = n}
                v == Read(props, t, n)
            IN (Reached(last', i) /\ (n \in Keys(props, t) \/ before # {})) =>
                /\ last'.at = i
                /\ last'.err = [kind |-> "Duplicated", name |-> n]
                /\ n \in Keys(props, t) =>
                    /\ Read(props', t, n) = v
                    /\ svc'[v.h] = svc[v.h]
                    /\ instance'[v.h] = instance[v.h]
                /\ n \notin Keys(props, t) =>
                    /\ Read(props', t, n) = Proxy(<<t, n>>)
                    /\ svc'[<<t, n>>] = deps[CHOOSE j \in before : \A k \in before : j <= k]
      ]_vars

\* C5 witness: a call that failed on its second argument, named like its first.
C5_Witness ==
    /\ last.op = "inject"
    /\ last.err.kind = "Duplicated"
    /\ last.at = 2
    /\ getServiceName(last.args[1]) = getServiceName(last.args[2])
    /\ last.err.name = getServiceName(last.args[2])

\* C6 as stated: an inject call with a descriptor named like a container
\* operation throws the reserved-name error and leaves the entries as they were.
C6_ReservedLeavesContainerUnchanged ==
    [][(last'.op = "inject" /\ NameSet(last'.args) \cap ReservedNames # {}) =>
        /\ last'.err.kind = "Reserved"
        /\ props'[last'.c] = props[last'.c]
      ]_vars

\* C6 amended: an inject call that reaches a descriptor named like a container
\* operation throws the reserved-name error naming it; the descriptors listed
\* before it are installed, it and the ones after it are not (so the entries
\* are as before when it is the first).
C6_ReservedStopsTheCall ==
    [][last'.op = "inject" =>
        LET t == last'.c
            deps == last'.args
        IN \A i \in 1..Len(deps) :
            (Reached(last', i) /\ getServiceName(deps[i]) \in ReservedNames) =>
                /\ last'.at = i
                /\ last'.err = [kind |-> "Reserved", name |-> getServiceName(deps[i])]
                /\ props'[t] = props[t] \o Installed(t, deps, i - 1)
      ]_vars

\* C6 witness: a call that failed on a reserved name in second position, its
\* first argument installed.
C6_Witness ==
    /\ last.op = "inject"
    /\ last.err = [kind |-> "Reserved", name |-> "inject"]
    /\ last.at = 2
    /\ has(props, last.c, getServiceName(last.args[1]))

\* C10: an inject call whose names are distinct, not reserved and not in the
\* container succeeds, and the entry names are then the former ones and these.
C10_DisjointNamesRegister ==
    [][(/\ last'.op = "inject"
        /\ Cardinality(NameSet(last'.args)) = Len(last'.args)
        /\ NameSet(last'.args) \cap ReservedNames = {}
        /\ NameSet(last'.args) \cap Keys(props, last'.c) = {}) =>
            /\ last'.err = NoError
            /\ Keys(props', last'.c) = Keys(props, last'.c) \cup NameSet(last'.args)
      ]_vars

\* the handles container c exposes that were registered on another container
Merged(c) == {props[c][i].val.h : i \in 1..Len(props[c])} \ {h \in Handles : h[1] = c}

\* C7: injectContainer(other) on a target that has a name of other throws the
\* merge-collision error naming a key of both, and copies nothing: the entries
\* of every container, and every service, are as before the call.
C7_CollisionCopiesNothing ==
    [][last'.op = "injectContainer" =>
        LET t == last'.c
            other == last'.args[1]
            common == Keys(props, t) \cap Keys(props, other)
        IN common # {} =>
            /\ last'.err.kind = "ContainersDuplicated"
            /\ last'.err.name \in common
            /\ props' = props
            /\ svc' = svc
            /\ instance' = instance
            /\ constructed' = constructed
      ]_vars

\* C7 witness: a failed merge of another container whose colliding key is its
\* second one, its first key being absent from the target.
C7_Witness ==
    /\ last.op = "injectContainer"
    /\ last.err.kind = "ContainersDuplicated"
    /\ last.args[1] # last.c
    /\ Len(props[last.args[1]]) >= 2
    /\ props[last.args[1]][2].key = last.err.name
    /\ ~has(props, last.c, props[last.args[1]][1].key)

\* C8: injectContainer(other) on a target with no name of other succeeds, the
\* target then holds its former entries and those of other (the same values),
\* and no constructor ran: counters and cached instances are as before.
C8_MergeIsUnionAndLazy ==
    [][last'.op = "injectContainer" =>
        LET t == last'.c
            other == last'.args[1]
        IN Keys(props, t) \cap Keys(props, other) = {} =>
            /\ last'.err = NoError
            /\ Keys(props', t) = Keys(props, t) \cup Keys(props, other)
            /\ \A k \in Keys(props, t) : Read(props', t, k) = Read(props, t, k)
            /\ \A k \in Keys(props, other) : Read(props', t, k) = Read(props, other, k)
            /\ props'[other] = props[other]
            /\ constructed' = constructed
            /\ instance' = instance
      ]_vars

\* C8 witness: a successful merge into a target that had an entry of its own,
\* bringing in a service that is still unconstructed.
C8_Witness ==
    /\ last.op = "injectContainer"
    /\ last.err = NoError
    /\ last.args[1] # last.c
    /\ \E h \in Merged(last.c) : constructed[h] = 0 /\ Read(props, last.c, h[2]) = Proxy(h)
    /\ \E k \in Keys(props, last.c) : ~has(props, last.args[1], k)

C4_FactoryInvokedAtMostOnce ==
    \A h \in Registered : svc[h].form = "factory" => constructed[h] <= 1

\* the container holds exactly the classes of D, each under its own name
Holds(P, S, c, D) ==
    /\ Keys(P, c) = {d.name : d \in D}
    /\ \A d \in D : S[<<c, d.name>>] = d

\* C11: with CircularA and CircularB registered on a container, in either
\* listing order, a.doA() (which uses b), b.askA() (which uses a) and the
\* methods that use nothing all return their result without error, the same
\* for both orders, and each service is constructed at most once.
C11_MutualUseResolves ==
    [][(/\ last'.op = "call"
        /\ Holds(props, svc, last'.c, {CircularA, CircularB})
        /\ HasMethod(svc[<<last'.c, last'.args[1]>>], last'.args[2])) =>
            /\ last'.err = NoError
            /\ last'.args = <<"a", "doA">> => last'.target = <<"a", "b">>
            /\ last'.args = <<"b", "askA">> => last'.target = <<"b", "a">>
            /\ last'.args = <<"a", "ping">> => last'.target = <<"a">>
            /\ last'.args = <<"b", "doB">> => last'.target = <<"b">>
            /\ constructed'[<<last'.c, last'.args[1]>>] = 1
            /\ \A k \in {"a", "b"} :
                  /\ constructed'[<<last'.c, k>>] <= 1
                  /\ constructed'[<<last'.c, k>>] = 1 =>
                        instance'[<<last'.c, k>>] = Instance(<<last'.c, k>>, 1)
      ]_vars

\* C11 witness: CircularB listed before CircularA, both constructed, b.askA()
\* just returned what it got from a.
C11_Witness ==
    /\ last.op = "call"
    /\ last.args = <<"b", "askA">>
    /\ last.target = <<"b", "a">>
    /\ props[App][1].key = "b"
    /\ Holds(props, svc, App, {CircularA, CircularB})
    /\ constructed[<<App, "a">>] = 1
    /\ constructed[<<App, "b">>] = 1

\* C12: with ServiceA, ServiceB and ServiceC registered on a container, in any
\* listing order, c.getValue() returns "CABA" and leaves each of a, b and c
\* constructed exactly once.
C12_ValueIsCABA ==
    [][(/\ last'.op = "call"
        /\ last'.args = <<"c", "getValue">>
        /\ Holds(props, svc, last'.c, {ServiceA, ServiceB, ServiceC})) =>
            /\ last'.err = NoError
            /\ last'.target = <<"C", "A", "B", "A">>
            /\ \A k \in {"a", "b", "c"} : constructed'[<<last'.c, k>>] = 1
      ]_vars

\* C12 witness: the services listed in the order c, a, b, none constructed
\* before, and c.getValue() just returned "CABA".
C12_Witness ==
    /\ last.op = "call"
    /\ last.args = <<"c", "getValue">>
    /\ last.target = <<"C", "A", "B", "A">>
    /\ last.ref = Proxy(<<App, "c">>)
    /\ [i \in 1..Len(props[App]) |-> props[App][i].key] = <<"c", "a", "b">>
    /\ Holds(props, svc, App, {ServiceA, ServiceB, ServiceC})

\* C13: an inject call that fails at its k-th descriptor has installed the
\* descriptors 1..k-1, in order, each as a fresh unconstructed handle of its
\* class, and has installed none of the descriptors k..n: every other handle
\* is as before.
C13_FailedBatchKeepsPrefix ==
    [][(last'.op = "inject" /\ last'.err # NoError) =>
        LET t == last'.c
            deps == last'.args
            k == last'.at
            prefix == {<<t, getServiceName(deps[i])>> : i \in 1..(k - 1)}
        IN /\ k \in 1..Len(deps)
           /\ last'.err.kind \in {"Duplicated", "Reserved"}
           /\ props'[t] = props[t] \o Installed(t, deps, k - 1)
           /\ \A i \in 1..(k - 1) :
                 LET h == <<t, getServiceName(deps[i])>> IN
                 /\ svc[h] = None
                 /\ svc'[h] = deps[i]
                 /\ constructed'[h] = 0
                 /\ instance'[h] = None
           /\ \A h \in Handles \ prefix :
                 svc'[h] = svc[h] /\ constructed'[h] = constructed[h] /\ instance'[h] = instance[h]
      ]_vars

\* C13 witness: a call that failed at its second descriptor, a duplicate of an
\* entry from before the call, its first descriptor installed.
C13_Witness ==
    /\ last.op = "inject"
    /\ last.at = 2
    /\ last.err.kind = "Duplicated"
    /\ getServiceName(last.args[1]) # getServiceName(last.args[2])
    /\ Read(props, last.c, getServiceName(last.args[1])) = Proxy(<<last.c, getServiceName(last.args[1])>>)
    /\ svc[<<last.c, getServiceName(last.args[1])>>] = last.args[1]
    /\ Len(props[last.c]) >= 2

\* C14: inject and injectContainer never raise a constructor's error and run
\* no constructor; the error of a constructor that throws is raised, as it
\* was thrown, by the member read that triggers the construction, and that
\* read leaves every container's entries as they were.
C14_ConstructionErrorAtFirstUse ==
    [][/\ last'.op \in {"inject", "injectContainer"} =>
            last'.err.kind # "Construction" /\ constructed' = constructed
       /\ last'.err.kind = "Construction" =>
            /\ last'.op = "get"
            /\ last'.ref.kind = "proxy"
            /\ svc[last'.ref.h].makes = "throws"
            /\ instance[last'.ref.h] = None
            /\ constructed'[last'.ref.h] = constructed[last'.ref.h] + 1
            /\ props' = props
       /\ (last'.op = "get" /\ last'.ref.kind = "proxy" /\ svc[last'.ref.h].makes = "throws") =>
            last'.err = ConstructionError(last'.ref.h)
      ]_vars

\* C14 witness: the first read of a member of a service whose constructor
\* throws, made through a container that merged it, raised the error.
C14_Witness ==
    /\ last.op = "get"
    /\ last.err.kind = "Construction"
    /\ constructed[last.ref.h] = 1
    /\ \E c \in Containers : last.ref.h \in Merged(c)

\* C19: the error of a failing inject call names the first descriptor, in
\* argument order, whose name is a container operation name or is present
\* (from before the call or from earlier in it); it is the reserved-name
\* error when the name is a container operation name, the duplicate-name
\* error otherwise.
C19_ErrorNamesFirstOffender ==
    [][(last'.op = "inject" /\ last'.err # NoError) =>
        LET t == last'.c
            deps == last'.args
            k == last'.at
            Offends(i) == \/ getServiceName(deps[i]) \in ReservedNames
                          \/ getServiceName(deps[i]) \in Keys(props, t)
                          \/ \E j \in 1..(i - 1) : getServiceName(deps[j]) = getServiceName(deps[i])
        IN /\ k \in 1..Len(deps)
           /\ Offends(k)
           /\ \A j \in 1..(k - 1) : ~Offends(j)
           /\ last'.err.name = getServiceName(deps[k])
           /\ last'.err.kind = IF getServiceName(deps[k]) \in ReservedNames
                               THEN "Reserved" ELSE "Duplicated"
      ]_vars

\* C20: no container ever has an entry named like a container operation, and
\* an entry, once installed, stays: after every step the name is still there
\* and belongs to the same handle of the same service.
C20_EntriesNeverReplaced ==
    [][\A c \in Containers :
        /\ Keys(props', c) \cap ReservedNames = {}
        /\ \A k \in Keys(props, c) :
              /\ k \in Keys(props', c)
              /\ Read(props', c, k).h = Read(props, c, k).h
              /\ svc'[Read(props, c, k).h] = svc[Read(props, c, k).h]
      ]_vars

\* C20 witness: a container holding a merged entry and an entry of its own has
\* just refused another class of the name of the merged entry.
C20_Witness ==
    /\ last.op = "inject"
    /\ last.err.kind = "Duplicated"
    /\ Read(props, last.c, last.err.name).h \in Merged(last.c)
    /\ svc[Read(props, last.c, last.err.name).h] # last.args[1]
    /\ \E k \in Keys(props, last.c) : <<last.c, k>> \in Registered

\* C15: whatever accesses are made to a handle, through the entry or through
\* references kept by several call sites, each access running to completion
\* before the next, a constructor or factory that does not throw has run at
\* most once, and an access that succeeded has observed the one cached value.
C15_OneConstructionPerHandle ==
    \A h \in Registered :
        svc[h].makes # "throws" =>
            /\ constructed[h] <= 1
            /\ (last.op \in LazyTraps /\ last.ref = Proxy(h) /\ last.err = NoError) =>
                  last.target = instance[h]

\* C16: testing whether the container has a name, listing its keys and
\* listing its values (each value being the very entry container[key]) run no
\* constructor: every counter, every cached instance and every entry is as
\* before.
C16_ContainerQueriesConstructNothing ==
    [][last'.op \in {"in", "keys", "values"} =>
        /\ constructed' = constructed
        /\ instance' = instance
        /\ props' = props
        /\ last'.op = "in" =>
              last'.target.is = (last'.args[1] \in Keys(props, last'.c) \cup DiContainerPrototype
                                                                       \cup ObjectPrototype)
        /\ last'.op = "values" =>
              /\ Len(last'.target.items) = Len(props[last'.c])
              /\ \A i \in 1..Len(props[last'.c]) :
                    last'.target.items[i] = Read(props', last'.c, props[last'.c][i].key)
      ]_vars

\* C16 witness: the values of a container were just listed, one of them the
\* handle of a registered service that is still unconstructed.
C16_Witness ==
    /\ last.op = "values"
    /\ \E i \in 1..Len(last.target.items) :
          /\ last.target.items[i].kind = "proxy"
          /\ last.target.items[i].h \in Registered
          /\ constructed[last.target.items[i].h] = 0

\* C17: a method read through a handle and called on its own runs with the
\* cached instance of the service as its this (unless the constructor threw).
C17_MethodBoundToInstance ==
    (last.op = "callDetached" /\ last.ref.kind = "proxy" /\ last.err.kind # "Construction") =>
        /\ last.err = NoError
        /\ last.target = instance[last.ref.h]
        /\ last.target = Instance(last.ref.h, 1)

\* C17 witness: a method read through a kept handle was called on its own
\* after the entry of the container had become the instance.
C17_Witness ==
    /\ last.op = "callDetached"
    /\ last.ref.kind = "proxy"
    /\ last.err = NoError
    /\ Read(props, last.ref.h[1], last.ref.h[2]) = instance[last.ref.h]
    /\ last.target = instance[last.ref.h]

\* C18: a successful inject and a successful injectContainer return the
\* container they were called on; a failing one returns nothing.
C18_ReturnsTheContainer ==
    last.op \in {"inject", "injectContainer"} =>
        last.target = IF last.err = NoError THEN Self(last.c) ELSE None

\* C18 witness: a merge of a non-empty container into another one returned
\* the target.
C18_Witness ==
    /\ last.op = "injectContainer"
    /\ last.err = NoError
    /\ last.args[1] # last.c
    /\ Len(props[last.args[1]]) > 0
    /\ last.target = Self(last.c)

\* C23: a method call constructs a service only if a member of its handle
\* was read in the call: the counter of every other service is unchanged. The
\* services read are the one called and the ones its method body (and theirs)
\* names, so a call of a method that uses nothing constructs the one service
\* called and leaves the services it holds the container of unconstructed.
C23_NoConstructionAsSideEffect ==
    [][last'.op = "call" =>
        LET c == last'.c
            h0 == last'.ref.h
            direct == {<<c, Body(svc[h0], last'.args[2]).calls[i].key>> :
                          i \in 1..Len(Body(svc[h0], last'.args[2]).calls)}
        IN \A h \in Handles :
              constructed'[h] # constructed[h] =>
                  /\ h \in touched'
                  /\ h \in {h0} \cup direct
                  /\ constructed[h] = 0
                  /\ constructed'[h] = 1
      ]_vars

\* C23 witness: CircularB, which holds the container of CircularA, was just
\* constructed by b.doB(), and CircularA is still unconstructed.
C23_Witness ==
    /\ last.op = "call"
    /\ last.args = <<"b", "doB">>
    /\ Holds(props, svc, App, {CircularA, CircularB})
    /\ constructed[<<App, "b">>] = 1
    /\ constructed[<<App, "a">>] = 0

\* C24: injectContainer(other) leaves the entries of other as they were, and
\* a registration on one container changes the entries of that container
\* alone: what is registered on the source after a merge does not appear on
\* the target, nor the other way round.
C24_MergeIsSnapshot ==
    [][/\ last'.op = "injectContainer" =>
            \A c \in Containers \ {last'.c} : props'[c] = props[c]
       /\ last'.op = "inject" =>
            \A c \in Containers \ {last'.c} : props'[c] = props[c]
      ]_vars

\* C24 witness: a service was just registered on a container after another
\* container had merged it, and the other container does not have the name.
C24_Witness ==
    /\ last.op = "inject"
    /\ last.err = NoError
    /\ \E c \in Containers \ {last.c} :
          /\ \E h \in Merged(c) : h[1] = last.c
          /\ ~has(props, c, getServiceName(last.args[1]))

\* C25: a read through the handle of a service whose constructor throws
\* invokes the constructor (again, if it was invoked before), raises its
\* error and caches nothing: the handle stays uninitialized and the entry of
\* the container is still the handle.
C25_FailedConstructionNotCached ==
    [][(last'.op = "get" /\ last'.ref.kind = "proxy" /\ svc[last'.ref.h].makes = "throws") =>
        LET h == last'.ref.h IN
        /\ constructed'[h] = constructed[h] + 1
        /\ last'.err = ConstructionError(h)
        /\ instance'[h] = None
        /\ Read(props', h[1], h[2]) = Proxy(h)
        /\ props' = props
      ]_vars

\* C25 witness: the constructor of a service has been invoked twice, has
\* thrown both times, and nothing is cached.
C25_Witness ==
    /\ last.op = "get"
    /\ last.err.kind = "Construction"
    /\ constructed[last.ref.h] = 2
    /\ instance[last.ref.h] = None
    /\ Read(props, last.ref.h[1], last.ref.h[2]) = Proxy(last.ref.h)

\* C26: once service n of container t is constructed, the entry n of t is the
\* instance itself, the copies of the handle held by containers that merged t
\* are still the handle, and a read through the handle, through a copy or
\* through the entry acts on that one instance, none of them constructing
\* again.
C26_HandleAndEntryAgree ==
    [][\A h \in Registered :
        (svc[h].makes = "object" /\ constructed'[h] >= 1) =>
            /\ constructed'[h] = 1
            /\ instance'[h] = Instance(h, 1)
            /\ Read(props', h[1], h[2]) = instance'[h]
            /\ \A c \in Containers \ {h[1]} : \A i \in 1..Len(props'[c]) :
                  props'[c][i].val.h = h =>
                      props'[c][i].val \in {Proxy(h), instance'[h]}
            /\ (last'.op = "get" /\ last'.ref.h = h) =>
                  /\ last'.err = NoError
                  /\ last'.target = instance'[h]
      ]_vars

\* C26 witness: a read through the entry, which is the instance, right after
\* a container that merged the handle before the construction still holds the
\* handle.
C26_Witness ==
    /\ last.op = "get"
    /\ last.ref.kind = "instance"
    /\ last.target = instance[last.ref.h]
    /\ \E c \in Containers : 
          /\ last.ref.h \in Merged(c)
          /\ Read(props, c, last.ref.h[2]) = Proxy(last.ref.h)

\* C29: a merge of a container whose entries the target already holds (as
\* after a successful merge of it), and a merge of a non-empty container into
\* itself, fail with the merge-collision error and leave every container as
\* it was.
C29_MergeNotIdempotent ==
    [][last'.op = "injectContainer" =>
        LET t == last'.c
            other == last'.args[1]
            repeats == /\ last.op = "injectContainer"
                       /\ last.err = NoError
                       /\ last.c = t
                       /\ last.args[1] = other
        IN (Len(props[other]) > 0 /\ (repeats \/ other = t)) =>
              /\ last'.err.kind = "ContainersDuplicated"
              /\ last'.err.name = props[other][1].key
              /\ props' = props
      ]_vars

\* C29 witness: a merge just failed on a target that holds every entry of
\* the other container, a container of its own right.
C29_Witness ==
    /\ last.op = "injectContainer"
    /\ last.err.kind = "ContainersDuplicated"
    /\ last.args[1] # last.c
    /\ Len(props[last.args[1]]) > 0
    /\ \A i \in 1..Len(props[last.args[1]]) :
          Read(props, last.c, props[last.args[1]][i].key) \in
              {props[last.args[1]][i].val, Proxy(props[last.args[1]][i].val.h)}

\* C28: an inject call fails if and only if one of its descriptors has a
\* name that is inject or injectContainer, or that the container holds (from
\* before the call or from earlier in it); a call of other names, toString
\* and constructor among them, installs them all.
C28_RejectedIffReservedOrPresent ==
    [][last'.op = "inject" =>
        LET t == last'.c
            deps == last'.args
            Offends(i) == \/ getServiceName(deps[i]) \in ReservedNames
                          \/ getServiceName(deps[i]) \in Keys(props, t)
                          \/ \E j \in 1..(i - 1) : getServiceName(deps[j]) = getServiceName(deps[i])
        IN /\ (last'.err # NoError) <=> (\E i \in 1..Len(deps) : Offends(i))
           /\ (last'.err = NoError) => Keys(props', t) = Keys(props, t) \cup NameSet(deps)
      ]_vars

\* C30: an inject call that repeats, on the same container with the same
\* arguments, the call before it, which failed at a position after the first,
\* fails at the first descriptor with the duplicate-name error of its name and
\* changes nothing.
C30_FailedBatchNotRetrySafe ==
    [][(last'.op = "inject" /\ Retried(last'.c, last'.args)) =>
        /\ last'.at = 1
        /\ last'.err = [kind |-> "Duplicated", name |-> getServiceName(last'.args[1])]
        /\ props' = props
        /\ svc' = svc
        /\ instance' = instance
        /\ constructed' = constructed
      ]_vars

\* C30 witness: the call just made repeated a batch that had failed after its
\* first descriptor, and failed on the first.
C30_Witness ==
    /\ last.op = "inject"
    /\ last.again
    /\ Len(last.args) > 1
    /\ last.at = 1
    /\ last.err.kind = "Duplicated"

\* C27: a method of a service reads the services it uses from the container
\* the service was registered on, whichever container it was called through:
\* a name that container has is used (its service constructed if need be),
\* also when it was added after the merge; a name it has not is undefined
\* there, also when the container called through has it; no other service is
\* constructed.
C27_ConstructedWithItsContainer ==
    [][(last'.op = "call" /\ HasMethod(svc[last'.ref.h], last'.args[2])) =>
        LET h0 == last'.ref.h
            S == h0[1]
            body == Body(svc[h0], last'.args[2])
            uses == body.calls # <<>>
            k == body.calls[1].key
            used == Read(props, S, k).h
        IN /\ constructed'[h0] = 1
           /\ instance'[h0] = Instance(h0, 1)
           /\ ~uses => last'.err = NoError /\ last'.target = body.out
           /\ (uses /\ has(props, S, k)) =>
                 /\ last'.err = NoError
                 /\ last'.target = body.out \o Body(svc[used], body.calls[1].method).out
                 /\ used \in touched'
                 /\ constructed'[used] = 1
           /\ (uses /\ ~has(props, S, k)) =>
                 /\ last'.err = TypeError(k)
                 /\ \A h \in Handles \ {h0} : constructed'[h] = constructed[h]
           /\ \A h \in Handles :
                 constructed'[h] # constructed[h] =>
                     h = h0 \/ (uses /\ has(props, S, k) /\ h = used)
      ]_vars

\* C27 witness: a service called through a container that merged it used a
\* service its own container has and the container called through has not
\* (so one registered after the merge).
C27_Witness ==
    /\ last.op = "call"
    /\ last.err = NoError
    /\ last.ref.h[1] # last.c
    /\ last.target = <<"B", "A">>
    /\ ~has(props, last.c, "a")
    /\ has(props, last.ref.h[1], "a")

\* C21: every assignment to the `instance` of a handle finds it unset: within
\* one read and across reads, a handle that holds an instance keeps it, also
\* when its constructor reads the handle again, itself or through another
\* service's constructor, and returns.
C21_CachedInstanceNeverReplaced ==
    [][/\ \A h \in Handles : instance[h] # None => instance'[h] = instance[h]
       /\ last'.op = "get" =>
             \A i \in 1..Len(last'.log) :
                 /\ instance[last'.log[i].h] = None
                 /\ \A j \in 1..(i - 1) : last'.log[j].h # last'.log[i].h
      ]_vars

\* the services of container c both read the other one in their constructors
MutuallyEager(c) == svc[<<c, "a">>] = EagerA /\ svc[<<c, "b">>] = EagerB

\* C22: with two services registered that each read a member of the other in
\* their constructors, a read through the handle of either starts one
\* construction inside the other as deep as the call stack allows and ends in
\* its overflow: no construction returns, nothing is cached, the entries stay
\* the handles.
C22_MutualConstructionNeverCompletes ==
    [][(/\ last'.op = "get"
        /\ last'.ref.kind = "proxy"
        /\ last'.ref.h[2] \in {"a", "b"}
        /\ MutuallyEager(last'.ref.h[1])) =>
            LET c == last'.ref.h[1] IN
            /\ last'.err = RangeError
            /\ last'.log = <<>>
            /\ instance'[<<c, "a">>] = None
            /\ instance'[<<c, "b">>] = None
            /\ props' = props
            /\ constructed'[<<c, "a">>] + constructed'[<<c, "b">>] =
                  constructed[<<c, "a">>] + constructed[<<c, "b">>] + MaxDepth + 1
            /\ constructed'[<<c, "a">>] > constructed[<<c, "a">>]
            /\ constructed'[<<c, "b">>] > constructed[<<c, "b">>]
      ]_vars

\* C22 witness: a read through the handle of one of two such services has
\* ended in the overflow, both constructors entered, neither service cached.
C22_Witness ==
    /\ last.op = "get"
    /\ last.err = RangeError
    /\ MutuallyEager(App)
    /\ constructed[<<App, "a">>] >= 2
    /\ constructed[<<App, "b">>] >= 2
    /\ instance[<<App, "a">>] = None
    /\ Read(props, App, "b") = Proxy(<<App, "b">>)

====
